---- MODULE Spec2Model ----
(***************************************************************************)
(* A model of pdf-renamer.py: the date extractor, the two-pass rename      *)
(* planner (preview_changes), the backup decision (backup_needed), the     *)
(* per-file rename (process_file) and the pipeline that main() drives.     *)
(*                                                                         *)
(* File names and dates are sequences of one-character strings, so that    *)
(* the regular expressions and the string formatting of the program are    *)
(* computed character by character.                                        *)
(***************************************************************************)
EXTENDS Integers, Sequences, FiniteSets, TLC

VARIABLES
    fs,                 \* the directory: .pdf name -> [doc, mtime]
    locked,             \* names whose os.rename raises (permission denied)
    posix,              \* TRUE: os.rename replaces an existing destination
    backups,            \* the backup_* subdirectories: set of [name, ctime, files]
    now,                \* the clock, in seconds
    ticks,              \* how many times the clock was advanced
    run,                \* which invocation of main() this is
    arg,                \* the command line's path of this run
    dry_run,            \* args.dry_run of this run
    pc,                 \* where main() is
    outcome,            \* how main() ended (printed message)
    pdf_files,          \* main: the list of file names
    stats,              \* main: the statistics dictionary
    i,                  \* preview_changes: loop index of the current pass
    date_counts,        \* preview_changes: date -> number of files
    date_counters,      \* preview_changes: date -> last suffix handed out
    changes,            \* preview_changes: insertion-ordered dict file -> new name
    proposed_names,     \* preview_changes: set of all new names
    any_changes_needed, \* preview_changes: the flag it returns
    extract_log,        \* every file name handed to extract_date, in call order
    futures,            \* main: one entry per submitted process_file call
    j,                  \* main: index of the next future whose result is read
    answer,             \* main: the response given to "Proceed with renaming?"
    renames,            \* number of os.rename calls that succeeded in this run
    prev,               \* what the previous run did (for two-run properties)
    decision            \* last value returned by backup_needed

vars == <<fs, locked, posix, backups, now, ticks, run, arg, dry_run, pc, outcome,
          pdf_files, stats, i, date_counts, date_counters, changes,
          proposed_names, any_changes_needed, extract_log, futures, j,
          answer, renames, prev, decision>>

None == "None"

----------------------------------------------------------------------------
(* Characters and strings *)

Digits == {"0", "1", "2", "3", "4", "5", "6", "7", "8", "9"}

Whitespace == {" "}

\* Code point of the characters the model uses (Python compares str by code point).
Ord(c) ==
    CASE c = " " -> 32 [] c = "(" -> 40 [] c = ")" -> 41 [] c = "-" -> 45
      [] c = "." -> 46 [] c = "0" -> 48 [] c = "1" -> 49 [] c = "2" -> 50
      [] c = "3" -> 51 [] c = "4" -> 52 [] c = "5" -> 53 [] c = "6" -> 54
      [] c = "7" -> 55 [] c = "8" -> 56 [] c = "9" -> 57 [] c = "_" -> 95
      [] c = "a" -> 97 [] c = "b" -> 98 [] c = "c" -> 99 [] c = "d" -> 100
      [] c = "f" -> 102 [] c = "k" -> 107 [] c = "p" -> 112 [] c = "u" -> 117

\* a < b for Python strings.
RECURSIVE StrLess(_, _)
StrLess(a, b) ==
    IF b = <<>> THEN FALSE
    ELSE IF a = <<>> THEN TRUE
    ELSE IF Ord(Head(a)) # Ord(Head(b)) THEN Ord(Head(a)) < Ord(Head(b))
    ELSE StrLess(Tail(a), Tail(b))

\* sorted(S) for a set of strings.
RECURSIVE Sorted(_)
Sorted(S) ==
    IF S = {} THEN <<>>
    ELSE LET m == CHOOSE x \in S : \A y \in S \ {x} : StrLess(x, y)
         IN  <<m>> \o Sorted(S \ {m})

StartsWith(s, p) == Len(s) >= Len(p) /\ SubSeq(s, 1, Len(p)) = p

EndsWith(s, p) == Len(s) >= Len(p) /\ SubSeq(s, Len(s) - Len(p) + 1, Len(s)) = p

DotPdf == <<".", "p", "d", "f">>

DigitChar(n) == <<"0", "1", "2", "3", "4", "5", "6", "7", "8", "9">>[n + 1]

\* str(n) for a natural number.
RECURSIVE Decimal(_)
Decimal(n) == IF n < 10 THEN <<DigitChar(n)>> ELSE Decimal(n \div 10) \o <<DigitChar(n % 10)>>

\* n formatted with at least w digits, zero-padded (%0wd).
RECURSIVE ZeroPad(_, _)
ZeroPad(n, w) == IF Len(Decimal(n)) >= w THEN Decimal(n) ELSE <<"0">> \o ZeroPad(n, w - 1)

----------------------------------------------------------------------------
(* Dates *)

\* The value a failed extraction or a failed parse yields (Python's None).
NoDate == [y |-> 0, m |-> 0, d |-> 0]

Date1 == [y |-> 2023, m |-> 1, d |-> 12]

Date2 == [y |-> 2023, m |-> 12, d |-> 1]

Dates == {Date1, Date2}

\* A date written without zero padding.
DateStrUnpadded(dt) == Decimal(dt.y) \o <<"-">> \o Decimal(dt.m) \o <<"-">> \o Decimal(dt.d)

\* str(parsed_date.date()): YYYY-MM-DD.
DateStr(dt) == ZeroPad(dt.y, 4) \o <<"-">> \o ZeroPad(dt.m, 2) \o <<"-">> \o ZeroPad(dt.d, 2)

----------------------------------------------------------------------------
(* extract_date_from_text and extract_date                                 *)
(*                                                                         *)
(* A page's text is the sequence, in text order, of the places where one   *)
(* of the date patterns matches: [line, pat, res], with line the line of   *)
(* the text the match lies on, pat the index of the pattern in             *)
(* date_patterns, and res what parser.parse(date_str, dayfirst=True)       *)
(* makes of the matched string (NoDate: it raises ValueError).             *)
(* A page is [none, items]: none says extract_text() returned None.        *)
(* A document is [readable, pages].                                        *)

NumPatterns == 5

FallbackLines == 10

\* re.search(pattern, text): the first match of pattern pat; <<>> when there is none.
FirstMatch(items, pat) ==
    LET hits == SelectSeq(items, LAMBDA it : it.pat = pat)
    IN  IF hits = <<>> THEN <<>> ELSE <<Head(hits)>>

\* A patterns loop that takes a match the parser rejects for a date.
TryPatternsUnchecked(items, pat) ==
    IF items = <<>> THEN NoDate
    ELSE IF Head(items).res # NoDate THEN Head(items).res ELSE Date1

\* for pattern in date_patterns: first match, parse, return or continue.
RECURSIVE TryPatterns(_, _)
TryPatterns(items, pat) ==
    IF pat > NumPatterns THEN NoDate
    ELSE LET mt == FirstMatch(items, pat)
         IN  IF mt # <<>> /\ mt[1].res # NoDate THEN mt[1].res
             ELSE TryPatterns(items, pat + 1)

\* for line in lines[:10]: the same patterns loop on that line alone.
RECURSIVE TryLines(_, _)
TryLines(items, line) ==
    IF line > FallbackLines THEN NoDate
    ELSE LET r == TryPatterns(SelectSeq(items, LAMBDA it : it.line = line), 1)
         IN  IF r # NoDate THEN r ELSE TryLines(items, line + 1)

ExtractDateFromText(items) ==
    LET r == TryPatterns(items, 1)
    IN  IF r # NoDate THEN r ELSE TryLines(items, 1)

\* extract_date: pages[0], then pages[1]; any exception (the file cannot be
\* opened, it has no page, a page has no text) is logged and yields None.
ExtractDate(doc) ==
    IF ~doc.readable \/ Len(doc.pages) = 0 THEN NoDate
    ELSE IF doc.pages[1].none THEN NoDate
    ELSE LET date == ExtractDateFromText(doc.pages[1].items)
         IN  IF date = NoDate /\ Len(doc.pages) > 1
             THEN IF doc.pages[2].none THEN NoDate
                  ELSE ExtractDateFromText(doc.pages[2].items)
             ELSE date

----------------------------------------------------------------------------
(* File names *)

\* is_already_date_formatted: re.match(r'^\d{4}-\d{2}-\d{2}_', filename).
IsAlreadyDateFormatted(f) ==
    /\ Len(f) >= 11
    /\ \A k \in {1, 2, 3, 4, 6, 7, 9, 10} : f[k] \in Digits
    /\ f[5] = "-" /\ f[8] = "-" /\ f[11] = "_"

\* Length of the run of digits s starts with.
RECURSIVE DigitRun(_)
DigitRun(s) == IF s # <<>> /\ Head(s) \in Digits THEN 1 + DigitRun(Tail(s)) ELSE 0

\* Length of the match of \(\d+\) at the start of s; 0 when there is none.
MarkerLen(s) ==
    IF s # <<>> /\ Head(s) = "("
    THEN LET n == DigitRun(Tail(s))
         IN  IF n >= 1 /\ Len(s) >= n + 2 /\ s[n + 2] = ")" THEN n + 2 ELSE 0
    ELSE 0

\* re.sub(r'\(\d+\)', '', s): one left-to-right pass over non-overlapping matches.
RECURSIVE RemoveDupMarkers(_)
RemoveDupMarkers(s) ==
    IF s = <<>> THEN <<>>
    ELSE IF MarkerLen(s) > 0 THEN RemoveDupMarkers(SubSeq(s, MarkerLen(s) + 1, Len(s)))
    ELSE <<Head(s)>> \o RemoveDupMarkers(Tail(s))

\* s.replace(sub, '').
RECURSIVE RemoveAll(_, _)
RemoveAll(s, sub) ==
    IF s = <<>> THEN <<>>
    ELSE IF StartsWith(s, sub) THEN RemoveAll(SubSeq(s, Len(sub) + 1, Len(s)), sub)
    ELSE <<Head(s)>> \o RemoveAll(Tail(s), sub)

\* s.strip().
RECURSIVE Strip(_)
Strip(s) ==
    IF s = <<>> THEN <<>>
    ELSE IF Head(s) \in Whitespace THEN Strip(Tail(s))
    ELSE IF s[Len(s)] \in Whitespace THEN Strip(SubSeq(s, 1, Len(s) - 1))
    ELSE s

\* re.sub(r'\s+', '_', s).
RECURSIVE CollapseWhitespace(_)
CollapseWhitespace(s) ==
    IF s = <<>> THEN <<>>
    ELSE IF Head(s) \in Whitespace
         THEN IF Len(s) > 1 /\ s[2] \in Whitespace THEN CollapseWhitespace(Tail(s))
              ELSE <<"_">> \o CollapseWhitespace(Tail(s))
    ELSE <<Head(s)>> \o CollapseWhitespace(Tail(s))

\* The three statements that clean the file name into base_name.
BaseName(file) == CollapseWhitespace(Strip(RemoveAll(RemoveDupMarkers(file), DotPdf)))

\* f"{extracted_date}_{base_name}.pdf"
PlainName(date, file) == DateStr(date) \o <<"_">> \o BaseName(file) \o DotPdf

\* f"{extracted_date}_{base_name}({counter}).pdf"
NumberedName(date, file, counter) ==
    DateStr(date) \o <<"_">> \o BaseName(file) \o <<"(">> \o Decimal(counter) \o <<")">> \o DotPdf

----------------------------------------------------------------------------
(* Python dictionaries as functions *)

EmptyDict == <<>>

DictSet(dict, k, v) == [x \in DOMAIN dict \cup {k} |-> IF x = k THEN v ELSE dict[x]]

DictGet(dict, k, default) == IF k \in DOMAIN dict THEN dict[k] ELSE default

\* changes[file] = new_name on an insertion-ordered dict kept as a sequence of entries.
ChangesSet(ch, file, new_name) ==
    IF \E k \in DOMAIN ch : ch[k].file = file
    THEN [k \in DOMAIN ch |-> IF ch[k].file = file THEN [file |-> file, new |-> new_name] ELSE ch[k]]
    ELSE Append(ch, [file |-> file, new |-> new_name])

Keys(ch) == {ch[k].file : k \in DOMAIN ch}

\* The statistics main starts with.
ZeroStats(n) ==
    [total_files |-> n, renamed |-> 0, skipped_formatted |-> 0,
     skipped_no_date |-> 0, errors |-> 0]

----------------------------------------------------------------------------
(* preview_changes *)

\* extract_date(os.path.join(directory, file)) on the directory as it is.
ExtractFile(file) == IF file \in DOMAIN fs THEN ExtractDate(fs[file].doc) ELSE NoDate

\* One iteration of the first pass ("collect all dates").
Pass1Step ==
    /\ pc = "pass1"
    /\ LET file == pdf_files[i]
           extracted_date == ExtractFile(file)
       IN  /\ extract_log' = Append(extract_log, file)
           /\ date_counts' =
                IF extracted_date # NoDate
                THEN DictSet(date_counts, extracted_date,
                             DictGet(date_counts, extracted_date, 0) + 1)
                ELSE date_counts
    /\ IF i < Len(pdf_files)
       THEN i' = i + 1 /\ pc' = "pass1"
       ELSE i' = 1 /\ pc' = "pass2"
    /\ UNCHANGED <<fs, locked, posix, backups, now, ticks, run, arg, dry_run, outcome,
                   pdf_files, stats, date_counters, changes, proposed_names,
                   any_changes_needed, futures, j, answer, renames, prev, decision>>

\* A counter that starts at 1 for the first file of a date.
NextCountersFromOne(date, counts, counters) ==
    IF counts[date] > 1
    THEN IF date \notin DOMAIN counters
         THEN DictSet(counters, date, 1)
         ELSE DictSet(counters, date, counters[date] + 1)
    ELSE counters

\* "Handle duplicates for same date": date_counters after naming one more file of date.
NextCounters(date, counts, counters) ==
    IF counts[date] > 1
    THEN IF date \notin DOMAIN counters
         THEN DictSet(counters, date, 0)
         ELSE DictSet(counters, date, counters[date] + 1)
    ELSE counters

\* new_name of a file of date, given the counters before it is named.
NewName(file, date, counts, counters) ==
    IF counts[date] > 1 /\ date \in DOMAIN counters
    THEN NumberedName(date, file, NextCounters(date, counts, counters)[date])
    ELSE PlainName(date, file)

\* One iteration of the second pass ("generate new names").
Pass2Step ==
    /\ pc = "pass2"
    /\ LET file == pdf_files[i]
       IN  IF IsAlreadyDateFormatted(file)
           THEN /\ stats' = [stats EXCEPT !.skipped_formatted = @ + 1]
                /\ UNCHANGED <<any_changes_needed, extract_log, date_counters,
                               changes, proposed_names>>
           ELSE LET extracted_date == ExtractFile(file)
                IN  /\ any_changes_needed' = TRUE
                    /\ extract_log' = Append(extract_log, file)
                    /\ IF extracted_date # NoDate
                       THEN LET new_name == NewName(file, extracted_date,
                                                    date_counts, date_counters)
                            IN  /\ date_counters' =
                                     NextCounters(extracted_date, date_counts, date_counters)
                                /\ changes' = ChangesSet(changes, file, new_name)
                                /\ proposed_names' = proposed_names \cup {new_name}
                                /\ stats' = stats
                       ELSE /\ stats' = [stats EXCEPT !.skipped_no_date = @ + 1]
                            /\ UNCHANGED <<date_counters, changes, proposed_names>>
    /\ IF i < Len(pdf_files)
       THEN i' = i + 1 /\ pc' = "pass2"
       ELSE i' = 1 /\ pc' = "gate"
    /\ UNCHANGED <<fs, locked, posix, backups, now, ticks, run, arg, dry_run, outcome,
                   pdf_files, date_counts, futures, j, answer, renames, prev, decision>>

----------------------------------------------------------------------------
(* Backups: find_latest_backup, compare_with_backup, backup_needed,        *)
(* create_backup, create_backup_for_single_file                            *)

MaxAge == 3600

TsWidth == 5

BackupPrefix == <<"b", "a", "c", "k", "u", "p", "_">>

\* f"backup_{timestamp}": the timestamp is fixed-width and zero-padded, here
\* the clock's seconds instead of %Y%m%d_%H%M%S.
BackupName(t) == BackupPrefix \o ZeroPad(t, TsWidth)

\* The backup a sort without reverse=True puts first.
FindOldestBackup(bks) ==
    {b \in bks : StartsWith(b.name, BackupPrefix) /\
                 \A o \in bks \ {b} : StartsWith(o.name, BackupPrefix) => StrLess(b.name, o.name)}

\* backup_dirs.sort(reverse=True); backup_dirs[0]. A set holding one backup, or none.
FindLatestBackup(bks) ==
    {b \in bks : StartsWith(b.name, BackupPrefix) /\
                 \A o \in bks \ {b} : StartsWith(o.name, BackupPrefix) => StrLess(o.name, b.name)}

\* {f: getmtime(f) for f in listdir(directory) if f.endswith('.pdf')}
PdfMtimes(dir) ==
    [f \in {g \in DOMAIN dir : EndsWith(g, DotPdf)} |-> dir[f].mtime]

CompareWithBackup(dir, b) == PdfMtimes(dir) = b.files

\* backup_needed has not been called.
NoDecision == [called |-> FALSE, needed |-> TRUE, recent |-> <<>>]

\* backup_needed: (True, None), or (False, latest_backup).
BackupNeeded(dir, bks, clock) ==
    LET latest == FindLatestBackup(bks)
    IN  IF latest = {} THEN [called |-> TRUE, needed |-> TRUE, recent |-> <<>>]
        ELSE LET b == CHOOSE x \in latest : TRUE
             IN  IF clock - b.ctime > MaxAge
                 THEN [called |-> TRUE, needed |-> TRUE, recent |-> <<>>]
                 ELSE IF CompareWithBackup(dir, b)
                      THEN [called |-> TRUE, needed |-> FALSE, recent |-> b.name]
                      ELSE [called |-> TRUE, needed |-> TRUE, recent |-> <<>>]

\* The files create_backup copies (all .pdf entries), or, for a one-file list,
\* the one create_backup_for_single_file copies; copy2 keeps the mtime.
BackupCopies(dir, files) ==
    IF Len(files) = 1
    THEN [f \in {files[1]} \cap DOMAIN dir |-> dir[f].mtime]
    ELSE PdfMtimes(dir)

\* os.makedirs(backup_dir) raises when the directory exists.
MakedirsFails(bks, clock) == \E b \in bks : b.name = BackupName(clock)

NewBackup(clock, copies) == [name |-> BackupName(clock), ctime |-> clock, files |-> copies]

----------------------------------------------------------------------------
(* main, handle_backup and process_file *)

plannerVars == <<i, date_counts, date_counters, changes, proposed_names,
                 any_changes_needed, extract_log>>

\* There was no run before this one.
NoPrev == [full |-> FALSE, clean |-> FALSE]

\* What is kept of a run that ended: full says it was a confirmed run on the
\* directory that was not a dry run and reached its summary, clean that it
\* skipped no file for want of a date and counted no error.
Ended(a, dr, out, st) ==
    [full |-> (a = "dir" /\ ~dr /\ out = "completed"),
     clean |-> (st.skipped_no_date = 0 /\ st.errors = 0)]

\* main up to "Initialize statistics": the path is a directory (its sorted
\* .pdf entries), a file, or neither.
Resolve ==
    /\ pc = "start"
    /\ \E dr \in BOOLEAN : dry_run' = dr
    /\ \/ /\ arg' = "invalid"
          /\ pc' = "done" /\ outcome' = "invalid_path"
          /\ UNCHANGED <<pdf_files, stats>>
       \/ /\ arg' = "dir"
          /\ LET files == Sorted({f \in DOMAIN fs : EndsWith(f, DotPdf)})
             IN  IF files = <<>>
                 THEN /\ pc' = "done" /\ outcome' = "no_pdfs"
                      /\ UNCHANGED <<pdf_files, stats>>
                 ELSE /\ pdf_files' = files /\ stats' = ZeroStats(Len(files))
                      /\ pc' = "backup" /\ UNCHANGED outcome
       \/ /\ arg' = "file"
          /\ \E f \in DOMAIN fs :
                pdf_files' = <<f>> /\ stats' = ZeroStats(1)
          /\ pc' = "backup" /\ UNCHANGED outcome
    /\ UNCHANGED <<fs, locked, posix, backups, now, ticks, run, plannerVars,
                   futures, j, answer, renames, prev, decision>>

\* handle_backup as main calls it: the user keeps the recent backup or declines
\* one (nothing is created), or a backup is created, or creating it raises
\* (os.makedirs, nothing is created) and the user continues without a backup
\* or not (main returns).
HandleBackup ==
    /\ pc = "backup"
    /\ decision' = BackupNeeded(fs, backups, now)
    /\ \/ /\ pc' = "pass1"
          /\ UNCHANGED <<backups, outcome>>
       \/ /\ ~MakedirsFails(backups, now)
          /\ backups' = backups \cup {NewBackup(now, BackupCopies(fs, pdf_files))}
          /\ pc' = "pass1"
          /\ UNCHANGED outcome
       \/ /\ backups' = backups
          /\ \E continue \in BOOLEAN :
                IF continue
                THEN pc' = "pass1" /\ UNCHANGED outcome
                ELSE pc' = "done" /\ outcome' = "backup_failed"
    /\ UNCHANGED <<fs, locked, posix, now, ticks, run, arg, dry_run, pdf_files, stats,
                   plannerVars, futures, j, answer, renames, prev>>

\* "Exit if no changes needed".
CheckChangesNeeded ==
    /\ pc = "gate"
    /\ IF ~any_changes_needed
       THEN pc' = "done" /\ outcome' = "already_renamed"
       ELSE pc' = "confirm" /\ UNCHANGED outcome
    /\ UNCHANGED <<fs, locked, posix, backups, now, ticks, run, arg, dry_run, pdf_files,
                   stats, plannerVars, futures, j, answer, renames, prev, decision>>

Responses == {"", "yes", "no", "x"}

\* An answer that cancels nothing.
ProceedsUnlessNo(response) == response \notin {"no"}

\* response in ['', 'y', 'yes']
Proceeds(response) == response \in {"", "y", "yes"}

\* response in ['n', 'no']
Cancels(response) == response \in {"n", "no"}

\* executor.submit(process_file, ...) for every item of changes.
Submitted(ch) ==
    [k \in DOMAIN ch |-> [file |-> ch[k].file, new |-> ch[k].new, state |-> "pending",
                          result |-> FALSE, attempts |-> 0]]

\* The confirmation loop and, on yes, the submission of every plan entry.
Confirm ==
    /\ pc = "confirm"
    /\ \E response \in Responses :
          /\ answer' = response
          /\ IF Proceeds(response)
             THEN /\ futures' = Submitted(changes) /\ j' = 1
                  /\ pc' = "execute" /\ UNCHANGED outcome
             ELSE IF Cancels(response)
             THEN /\ pc' = "done" /\ outcome' = "cancelled"
                  /\ UNCHANGED <<futures, j>>
             ELSE UNCHANGED <<pc, outcome, futures, j>>
    /\ UNCHANGED <<fs, locked, posix, backups, now, ticks, run, arg, dry_run, pdf_files,
                   stats, plannerVars, renames, prev, decision>>

\* Whether os.rename(src, dst) returns: src exists and may be renamed, and
\* an existing dst is replaced (POSIX) or makes it raise (Windows).
RenameSucceeds(dir, lk, px, src, dst) ==
    /\ src \in DOMAIN dir
    /\ src \notin lk
    /\ (dst \in DOMAIN dir /\ dst # src) => px

\* The directory after os.rename(src, dst) returned.
Renamed(dir, src, dst) ==
    [f \in (DOMAIN dir \ {src}) \cup {dst} |-> IF f = dst THEN dir[src] ELSE dir[f]]

\* What process_file returns.
ProcessFileResult(dir, lk, px, file, new_name, dry) ==
    IF ~EndsWith(file, DotPdf) THEN FALSE
    ELSE IF dry THEN TRUE
    ELSE RenameSucceeds(dir, lk, px, file, new_name)

\* Whether process_file calls os.rename.
CallsRename(file, dry) == EndsWith(file, DotPdf) /\ ~dry

\* A worker thread runs one submitted process_file call.
RunTask(k) ==
    /\ pc = "execute"
    /\ futures[k].state = "pending"
    /\ LET file == futures[k].file
           new_name == futures[k].new
           ok == ProcessFileResult(fs, locked, posix, file, new_name, dry_run)
       IN  /\ futures' = [futures EXCEPT ![k].state = "done", ![k].result = ok,
                                         ![k].attempts = @ + 1]
           /\ IF CallsRename(file, dry_run) /\ ok
              THEN fs' = Renamed(fs, file, new_name) /\ renames' = renames + 1
              ELSE UNCHANGED <<fs, renames>>
    /\ UNCHANGED <<locked, posix, backups, now, ticks, run, arg, dry_run, pc, outcome,
                   pdf_files, stats, plannerVars, j, answer, prev, decision>>

\* A result read without counting a failure.
TallySuccessOnly(st, result) ==
    IF result THEN [st EXCEPT !.renamed = @ + 1] ELSE st

\* if future.result(): stats['renamed'] += 1 else: stats['errors'] += 1
Tally(st, result) ==
    IF result THEN [st EXCEPT !.renamed = @ + 1] ELSE [st EXCEPT !.errors = @ + 1]

\* The main thread reads the next future's result, in submission order.
Collect ==
    /\ pc = "execute"
    /\ j <= Len(futures)
    /\ futures[j].state = "done"
    /\ stats' = Tally(stats, futures[j].result)
    /\ j' = j + 1
    /\ UNCHANGED <<fs, locked, posix, backups, now, ticks, run, arg, dry_run, pc, outcome,
                   pdf_files, plannerVars, futures, answer, renames, prev, decision>>

\* The with block is left and the summary printed.
Summary ==
    /\ pc = "execute"
    /\ j > Len(futures)
    /\ pc' = "done" /\ outcome' = "completed"
    /\ UNCHANGED <<fs, locked, posix, backups, now, ticks, run, arg, dry_run,
                   pdf_files, stats, plannerVars, futures, j, answer, renames, prev,
                   decision>>

MaxRuns == 2

\* main is started again on the same directory, a second later.
NextRun ==
    /\ pc = "done"
    /\ run < MaxRuns
    /\ run' = run + 1
    /\ now' = now + 1
    /\ prev' = Ended(arg, dry_run, outcome, stats)
    /\ pc' = "start" /\ outcome' = None /\ arg' = None /\ dry_run' = FALSE
    /\ pdf_files' = <<>> /\ stats' = ZeroStats(0) /\ i' = 1
    /\ date_counts' = EmptyDict /\ date_counters' = EmptyDict
    /\ changes' = <<>> /\ proposed_names' = {} /\ any_changes_needed' = FALSE
    /\ extract_log' = <<>> /\ futures' = <<>> /\ j' = 1 /\ answer' = None
    /\ renames' = 0 /\ decision' = NoDecision
    /\ UNCHANGED <<fs, locked, posix, backups, ticks>>

----------------------------------------------------------------------------
(* The backup decision on a directory that changes over time *)

MaxTicks == 2

MaxBackups == 2

\* Time passes.
Tick ==
    /\ ticks < MaxTicks
    /\ \E dt \in {1, MaxAge} : now' = now + dt
    /\ ticks' = ticks + 1
    /\ decision' = NoDecision
    /\ UNCHANGED <<fs, locked, posix, backups, run, arg, dry_run, pc, outcome, pdf_files,
                   stats, plannerVars, futures, j, answer, renames, prev>>

\* A file of the directory is modified.
TouchFile ==
    /\ \E f \in DOMAIN fs :
          /\ fs[f].mtime # now
          /\ fs' = [fs EXCEPT ![f].mtime = now]
    /\ decision' = NoDecision
    /\ UNCHANGED <<locked, posix, backups, now, ticks, run, arg, dry_run, pc, outcome,
                   pdf_files, stats, plannerVars, futures, j, answer, renames, prev>>

\* create_backup (files = the directory's listing) or
\* create_backup_for_single_file (files = one file) returns, or raises at
\* the first copy and leaves the new directory empty.
CreateBackup ==
    /\ Cardinality(backups) < MaxBackups
    /\ ~MakedirsFails(backups, now)
    /\ \E files \in {Sorted(DOMAIN fs)} \cup {<<f>> : f \in DOMAIN fs} :
          \E copies \in {BackupCopies(fs, files), EmptyDict} :
              backups' = backups \cup {NewBackup(now, copies)}
    /\ decision' = NoDecision
    /\ UNCHANGED <<fs, locked, posix, now, ticks, run, arg, dry_run, pc, outcome,
                   pdf_files, stats, plannerVars, futures, j, answer, renames, prev>>

\* backup_needed(directory) is called.
Decide ==
    /\ ~decision.called
    /\ decision' = BackupNeeded(fs, backups, now)
    /\ UNCHANGED <<fs, locked, posix, backups, now, ticks, run, arg, dry_run, pc, outcome,
                   pdf_files, stats, plannerVars, futures, j, answer, renames, prev>>

----------------------------------------------------------------------------
(* Inputs *)

MaxFiles == 3

MaxPages == 2

MaxItems == 2

MaxLine == 11

NameA == <<"a", ".", "p", "d", "f">>

NameDup == <<"a", " ", "(", "1", ")", ".", "p", "d", "f">>

NameNested == <<"a", "(", "(", "1", ")", "1", ")", ".", "p", "d", "f">>

NameSpaces == <<"b", " ", " ", "c", ".", "p", "d", "f">>

NameFormatted == <<"2", "0", "2", "3", "-", "0", "1", "-", "1", "2", "_", "a", ".", "p", "d", "f">>

NameShortDate == <<"2", "0", "2", "3", "-", "1", "-", "1", "2", "_", "a", ".", "p", "d", "f">>

PlanNames == {NameA, NameDup, NameNested, NameSpaces, NameFormatted, NameShortDate}

\* A one-page document whose text holds "12/01/2023"-like text parsing to date
\* (NoDate: a text without any date).
DocOf(date) ==
    [readable |-> TRUE,
     pages |-> <<[none |-> FALSE,
                  items |-> IF date = NoDate THEN <<>>
                            ELSE <<[line |-> 1, pat |-> 2, res |-> date]>>]>>]

SimpleDocs == {DocOf(dt) : dt \in Dates \cup {NoDate}}

\* The matches a text may hold: on the first line, on the last line of the
\* fallback or below it, of the first or the last pattern, parsed or not.
Items == [line : {1, FallbackLines, MaxLine}, pat : {1, NumPatterns}, res : {Date1, NoDate}]

\* Texts of exactly n matches, in text order.
RECURSIVE Texts(_)
Texts(n) ==
    IF n = 0 THEN {<<>>}
    ELSE {t \in {Append(s, it) : s \in Texts(n - 1), it \in Items} :
              n = 1 \/ t[n - 1].line <= t[n].line}

\* Pages of exactly n matches; a page without text has none.
PagesOf(n) ==
    {[none |-> FALSE, items |-> s] : s \in Texts(n)} \cup
    (IF n = 0 THEN {[none |-> TRUE, items |-> <<>>]} ELSE {})

\* Page sequences of at most np pages holding at most n matches in all.
RECURSIVE PageSeqs(_, _)
PageSeqs(np, n) ==
    IF np = 0 THEN {<<>>}
    ELSE LET Rest(k) == PageSeqs(np - 1, n - k)
             Tails == [k \in 0..n |-> Rest(k)]
             Heads == [k \in 0..n |-> PagesOf(k)]
         IN  {<<>>} \cup
             UNION {{<<pg>> \o rest : pg \in Heads[k], rest \in Tails[k]} : k \in 0..n}

\* The documents of at most np pages and n matches, and one that cannot be opened.
RichDocs(np, n) ==
    {[readable |-> FALSE, pages |-> <<>>]} \cup
    {[readable |-> TRUE, pages |-> ps] : ps \in PageSeqs(np, n)}

\* The state preview_changes(pdf_files, directory, stats) starts in.
PlannerStart(files) ==
    /\ pdf_files = files
    /\ stats = ZeroStats(Len(files))
    /\ i = 1
    /\ date_counts = EmptyDict
    /\ date_counters = EmptyDict
    /\ changes = <<>>
    /\ proposed_names = {}
    /\ any_changes_needed = FALSE
    /\ extract_log = <<>>

\* Everything outside the planner at rest.
Quiet ==
    /\ locked = {} /\ posix = TRUE /\ backups = {} /\ now = 0 /\ ticks = 0
    /\ run = 1 /\ arg = "dir" /\ dry_run = FALSE /\ outcome = None
    /\ futures = <<>> /\ j = 1 /\ answer = None /\ renames = 0
    /\ prev = NoPrev /\ decision = NoDecision

\* The planner on a sorted directory listing of at most MaxFiles names.
InitPlan ==
    /\ \E names \in SUBSET PlanNames :
          /\ names # {} /\ Cardinality(names) <= MaxFiles
          /\ fs \in [names -> [doc : SimpleDocs, mtime : {0}]]
          /\ PlannerStart(Sorted(names))
    /\ pc = "pass1"
    /\ Quiet

\* The planner on one file of any text, listed before a dated file.
InitExtract ==
    /\ \E doc \in RichDocs(MaxPages, MaxItems) :
          fs = (NameA :> [doc |-> doc, mtime |-> 0]) @@
               (NameSpaces :> [doc |-> DocOf(Date2), mtime |-> 0])
    /\ PlannerStart(Sorted({NameA, NameSpaces}))
    /\ pc = "pass1"
    /\ Quiet

RunNames == {NameA, NameNested, NameFormatted}

RunDocs == {DocOf(Date1), DocOf(NoDate)}

\* main is about to start on a directory of at most MaxFiles .pdf files.
Init ==
    /\ \E names \in SUBSET RunNames :
          /\ Cardinality(names) <= MaxFiles
          /\ fs \in [names -> [doc : RunDocs, mtime : {0}]]
          /\ locked \in SUBSET names
    /\ posix \in BOOLEAN
    /\ backups = {} /\ now = 0 /\ ticks = 0 /\ run = 1
    /\ pc = "start" /\ arg = None /\ dry_run = FALSE /\ outcome = None
    /\ PlannerStart(<<>>)
    /\ futures = <<>> /\ j = 1 /\ answer = None /\ renames = 0
    /\ prev = NoPrev /\ decision = NoDecision

\* A directory of one or two files, not backed up yet.
InitBackup ==
    /\ \E names \in SUBSET {NameA, NameSpaces} :
          /\ names # {}
          /\ fs \in [names -> [doc : {DocOf(Date1)}, mtime : {0}]]
    /\ PlannerStart(<<>>)
    /\ pc = "idle"
    /\ Quiet

NextPlan == Pass1Step \/ Pass2Step

Next ==
    \/ Resolve
    \/ HandleBackup
    \/ Pass1Step
    \/ Pass2Step
    \/ CheckChangesNeeded
    \/ Confirm
    \/ \E k \in DOMAIN futures : RunTask(k)
    \/ Collect
    \/ Summary
    \/ NextRun

NextBackup == Tick \/ TouchFile \/ CreateBackup \/ Decide

Spec == Init /\ [][Next]_vars

SpecBackup == InitBackup /\ [][NextBackup]_vars

SpecPlan == InitPlan /\ [][NextPlan]_vars

SpecExtract == InitExtract /\ [][NextPlan]_vars

----------------------------------------------------------------------------
(* Properties of the planner *)

Formatted(files) == {f \in files : IsAlreadyDateFormatted(f)}

Listed == {pdf_files[k] : k \in DOMAIN pdf_files}

\* C1: the plan never maps two different original names to the same new name.
C1_DistinctNewNames ==
    \A a, b \in DOMAIN changes : a # b => changes[a].new # changes[b].new

\* C2: an already formatted file is never handed to extract_date, never
\* counted in the per-date tally, never a key of the plan, and counted once
\* as skipped (already formatted).
C2_FormattedUntouched ==
    /\ \A k \in DOMAIN extract_log : ~IsAlreadyDateFormatted(extract_log[k])
    /\ \A f \in Keys(changes) : ~IsAlreadyDateFormatted(f)
    /\ pc = "gate" =>
          /\ stats.skipped_formatted = Cardinality(Formatted(Listed))
          /\ \A dt \in DOMAIN date_counts :
                date_counts[dt] =
                    Cardinality({f \in Listed \ Formatted(Listed) : ExtractFile(f) = dt})

\* Every listed file is unformatted and extracts to date.
SameDateBatch(date) ==
    \A k \in DOMAIN pdf_files :
        ~IsAlreadyDateFormatted(pdf_files[k]) /\ ExtractFile(pdf_files[k]) = date

\* C3: when no file is formatted and all extract to one date D, the first file
\* is named D_<stem>.pdf and the k-th file after it D_<stem>(k).pdf.
C3_SuffixesInOrder ==
    pc = "gate" =>
        \A date \in Dates :
            SameDateBatch(date) =>
                /\ Len(changes) = Len(pdf_files)
                /\ \A k \in DOMAIN pdf_files :
                      /\ changes[k].file = pdf_files[k]
                      /\ changes[k].new =
                            DateStr(date) \o <<"_">> \o BaseName(pdf_files[k]) \o
                            (IF k = 1 THEN <<>> ELSE <<"(">> \o Decimal(k - 1) \o <<")">>) \o
                            DotPdf

C3_Witness ==
    /\ pc = "gate"
    /\ Len(pdf_files) = 3
    /\ \E date \in Dates : SameDateBatch(date)
    /\ EndsWith(changes[3].new, <<"(", "2", ")", ".", "p", "d", "f">>)

\* C6: any_changes_needed is false whenever every file is already formatted or
\* has no date, and true only if some file is eligible for renaming.
C6_FlagMeansEligible ==
    pc = "gate" =>
        (any_changes_needed <=>
            \E f \in Listed : ~IsAlreadyDateFormatted(f) /\ ExtractFile(f) # NoDate)

\* The first two pages of doc.
FirstTwoPages(doc) == SubSeq(doc.pages, 1, IF Len(doc.pages) < 2 THEN Len(doc.pages) ELSE 2)

\* No page of the first two holds a match that parses within its first 10 lines.
NoDateInFirstLines(doc) ==
    \A n \in DOMAIN FirstTwoPages(doc) :
        \A k \in DOMAIN doc.pages[n].items :
            doc.pages[n].items[k].line <= FallbackLines =>
                doc.pages[n].items[k].res = NoDate

\* No page of the first two holds a match that parses, on any line.
NoDateAnywhere(doc) ==
    \A n \in DOMAIN FirstTwoPages(doc) :
        \A k \in DOMAIN doc.pages[n].items : doc.pages[n].items[k].res = NoDate

Unformatted == Listed \ Formatted(Listed)

\* C10 as stated: a file without a parseable date in the first 10 lines of its
\* first two pages is left out of the plan and counted as skipped (no date).
C10_FirstLinesOnly ==
    pc = "gate" =>
        /\ \A f \in Unformatted : NoDateInFirstLines(fs[f].doc) => f \notin Keys(changes)
        /\ stats.skipped_no_date >=
               Cardinality({f \in Unformatted : NoDateInFirstLines(fs[f].doc)})

\* C10 amended: a file without a parseable date anywhere in the text of its
\* first two pages is left out of the plan and counted as skipped (no date),
\* and the planner still goes through every other file.
C10_NoDateAnywhereSkipped ==
    pc = "gate" =>
        /\ \A f \in Unformatted : NoDateAnywhere(fs[f].doc) => f \notin Keys(changes)
        /\ stats.skipped_no_date >=
               Cardinality({f \in Unformatted : NoDateAnywhere(fs[f].doc)})
        /\ \A f \in Unformatted : ExtractFile(f) # NoDate => f \in Keys(changes)
        /\ Len(changes) + stats.skipped_no_date + stats.skipped_formatted = Len(pdf_files)

C10_Witness ==
    /\ pc = "gate"
    /\ NoDateAnywhere(fs[NameA].doc)
    /\ Len(fs[NameA].doc.pages) = 2
    /\ fs[NameA].doc.pages[1].items # <<>>
    /\ fs[NameA].doc.pages[2].items # <<>>
    /\ stats.skipped_no_date = 1
    /\ Keys(changes) = {NameSpaces}

----------------------------------------------------------------------------
(* Properties of the pipeline *)

\* C4: a dry run leaves the directory alone and reports, for every entry, what
\* a real run would report on the same directory.
C4_DryRunSameOutcome ==
    dry_run =>
        /\ renames = 0
        /\ \A k \in DOMAIN futures :
              futures[k].state = "done" =>
                  futures[k].result =
                      ProcessFileResult(fs, locked, posix, futures[k].file,
                                        futures[k].new, FALSE)

\* The second of two runs on the directory, the first a confirmed real run
\* that reached its summary, once it is past the backup step.
SecondRunPlanning ==
    /\ run = 2 /\ prev.full /\ arg = "dir"
    /\ pc \notin {"start", "backup"}
    /\ outcome # "backup_failed"

\* What C5 says of the second run: every file skipped as already formatted,
\* "files are already renamed" without a confirmation prompt, no rename.
SecondRunIdle ==
    /\ pc \notin {"confirm", "execute"}
    /\ renames = 0
    /\ pc \in {"gate", "done"} => stats.skipped_formatted = stats.total_files
    /\ pc = "done" => outcome = "already_renamed"

PlanComplete ==
    /\ pc \in {"gate", "confirm", "execute", "done"}
    /\ Len(changes) + stats.skipped_no_date + stats.skipped_formatted = Len(pdf_files)

Started == {k \in DOMAIN futures : futures[k].attempts > 0}

\* C8: no rename starts before the plan is complete and the user has answered
\* yes; a run that ends by invalid path, no PDFs, a backup failure the user
\* does not continue after, or the answer no performs no rename.
C8_NoRenameBeforeConfirm ==
    /\ (renames > 0 \/ Started # {}) =>
          /\ answer \in {"", "y", "yes"}
          /\ PlanComplete
    /\ (pc = "done" /\ outcome \in {"invalid_path", "no_pdfs", "backup_failed", "cancelled"}) =>
          /\ renames = 0
          /\ Started = {}

C8_Witness ==
    /\ pc = "execute"
    /\ renames = 1
    /\ answer = ""
    /\ Cardinality(Started) = 1
    /\ Len(futures) = 2

\* C9: every plan entry is attempted exactly once in any interleaving and with
\* any failures, and at the summary renamed + errors is the number of plan
\* entries and total_files the sum of the four other counters.
C9_CountersAddUp ==
    /\ \A k \in DOMAIN futures : futures[k].attempts <= 1
    /\ (pc = "done" /\ outcome = "completed") =>
          /\ Len(futures) = Len(changes)
          /\ \A k \in DOMAIN futures :
                futures[k].attempts = 1 /\ futures[k].file = changes[k].file
          /\ stats.renamed + stats.errors = Len(changes)
          /\ stats.total_files =
                stats.renamed + stats.skipped_formatted + stats.skipped_no_date + stats.errors

C9_Witness ==
    /\ pc = "done" /\ outcome = "completed" /\ ~dry_run
    /\ stats.errors = 1 /\ stats.renamed = 1 /\ stats.skipped_formatted = 1

\* The listed files the plan leaves under their names.
Unrenamed == Listed \ Keys(changes)

\* No new name of the complete plan is the name of a listed file that stays.
PlanAvoidsUnrenamed ==
    PlanComplete => \A k \in DOMAIN changes : changes[k].new \notin Unrenamed

\* A step leaves the directory with as many files as it had.
FileCountKept == Cardinality(DOMAIN fs') = Cardinality(DOMAIN fs)

\* C11: no new name of the plan is the name of a listed file that is not
\* itself renamed, and no step of a run changes the number of files in the
\* directory (no rename lands on an existing file).
C11_NoRenameOntoExisting == [](PlanAvoidsUnrenamed) /\ [][FileCountKept]_vars

----------------------------------------------------------------------------
(* Properties of the backup decision *)

\* b was created less than an hour ago and holds the directory's .pdf names
\* and modification times.
FreshAndEqual(b) == now - b.ctime < MaxAge /\ b.files = PdfMtimes(fs)

\* C7 as stated: backup_needed answers "reusable" whenever some backup is
\* fresh and equal, whichever other backups there are.
C7_ReusableIfAnyMatches ==
    decision.called =>
        ((\E b \in backups : FreshAndEqual(b)) =>
            ~decision.needed /\ decision.recent # <<>>)

\* C7 amended: backup_needed answers "reusable", with that backup, whenever
\* the backup created last is fresh and equal.
C7_ReusableIfLatestMatches ==
    decision.called =>
        \A b \in backups :
            (FreshAndEqual(b) /\ \A o \in backups \ {b} : o.ctime < b.ctime) =>
                ~decision.needed /\ decision.recent = b.name

C7_Witness ==
    /\ decision.called /\ ~decision.needed
    /\ Cardinality(backups) = 2
    /\ \E b \in backups : b.name = decision.recent /\ b.ctime > 0 /\ now > b.ctime

====
